---- MODULE Spec2Model ----
(***************************************************************************)
(* Model of WriteAdapterConsumer (src/lib.rs): a demand-driven adapter in  *)
(* front of a std::io::Write sink.  The consumer's fields are the          *)
(* variables demand, event_queue and buffered; the sink is an external     *)
(* collaborator whose answer to each write is chosen nondeterministically. *)
(* The remaining variables are history variables that record what the      *)
(* driver has observed (return values, events handed out, ...).            *)
(***************************************************************************)
EXTENDS Integers, Sequences, FiniteSets, TLC

\* ---------------------------------------------------------------- bounds
\* longest byte slice the driver passes to write
MaxLen == 2
\* largest count of a Request event the driver passes to emit
MaxCount == 1
\* cap on the number of events ever enqueued (keeps the queue finite)
MaxEvents == 3
\* largest number of lines the driver loop of tests::it_works is asked for
MaxLines == 4

\* the byte values used by the tests (b'A', b'B')
Bytes == {65, 66}

\* ---------------------------------------------------------------- values
\* Option<T>
None == <<>>
Some(v) == <<v>>

\* enum ConsumerEvent
Request(n) == [tag |-> "Request", count |-> n]
Termination == [tag |-> "Termination"]
Finish == [tag |-> "Finish"]

\* enum ConsumerError
WriteWithoutRequest == "WriteWithoutRequest"

\* Result<(), ConsumerError> as returned by write; Panicked stands for the
\* call not returning at all (slice index out of range)
Ok == "Ok"
Err(e) == e
Panicked == "panic"

\* io::Result<usize> as returned by the sink
SinkOk(n) == <<"Ok", n>>
SinkErr == <<"Err">>

\* the slices the driver may pass to write
DataSet == UNION {[1..l -> Bytes] : l \in 0..MaxLen}
\* the answers a sink may give; a count above the slice length is a sink
\* that breaks the io::Write contract (tests::PartialWriter on an empty slice)
SinkResults == {SinkErr} \cup {SinkOk(n) : n \in 0..(MaxLen + 1)}
\* what is recorded as the sink's answer for a write that never calls it
NotCalled == <<>>
\* the events the driver may pass to emit
EventSet == {Request(n) : n \in 0..MaxCount} \cup {Termination, Finish}

\* ---------------------------------------------------------------- state
VARIABLES demand, event_queue, buffered, panicked,
          enqueued, returned, announced, okWrites, fresh, last,
          own, emitted, firstWrite, shortWrites, remainder, driver

vars == <<demand, event_queue, buffered, panicked,
          enqueued, returned, announced, okWrites, fresh, last,
          own, emitted, firstWrite, shortWrites, remainder, driver>>

\* the struct WriteAdapterConsumer (the boxed writer is not part of the state)
Self == [demand |-> demand, event_queue |-> event_queue, buffered |-> buffered]

\* ---------------------------------------------------------------- code
\* emit pushing at the head of the queue instead of the tail
emit_push_front(self, event) == [self EXCEPT !.event_queue = <<event>> \o @]

\* fn emit(&mut self, event)
emit(self, event) == [self EXCEPT !.event_queue = Append(@, event)]

\* next_event taking the newest event (pop_back) instead of the oldest
pop_front_takes_back(q) ==
    IF q = <<>> THEN [q |-> q, ret |-> None]
    ELSE [q |-> SubSeq(q, 1, Len(q) - 1), ret |-> Some(q[Len(q)])]

\* next_event handing out the head without removing it (front instead of pop_front)
pop_front_keeps_head(q) ==
    IF q = <<>> THEN [q |-> q, ret |-> None]
    ELSE [q |-> q, ret |-> Some(Head(q))]

\* VecDeque::pop_front
pop_front(q) ==
    IF q = <<>> THEN [q |-> q, ret |-> None]
    ELSE [q |-> Tail(q), ret |-> Some(Head(q))]

\* fn next_event(&mut self) -> Option<ConsumerEvent>
next_event(self) ==
    LET p == pop_front(self.event_queue)
    IN [self |-> [self EXCEPT !.event_queue = p.q], ret |-> p.ret]

\* update dropping the buffered remainder as if it had retried it
update_clears_buffered(self) == [self EXCEPT !.buffered = None]

\* fn update(&mut self)
update(self) == self

initial_demand == 1

\* new forgetting to announce the initial demand
new_without_emit ==
    [demand |-> initial_demand, event_queue |-> <<>>, buffered |-> None]

\* a consumer starting with, and announcing, two units of demand
new_with_two_units ==
    emit([demand |-> initial_demand + 1, event_queue |-> <<>>, buffered |-> None],
         Request(initial_demand + 1))

\* pub fn new(writer)
new ==
    LET consumer == [demand |-> initial_demand,
                     event_queue |-> <<>>,
                     buffered |-> None]
    IN emit(consumer, Request(initial_demand))

\* the demand check off by one
has_demand_off_by_one(self) == self.demand >= 0

\* the demand check dropped
has_demand_always(self) == TRUE

\* `if self.demand > 0`
has_demand(self) == self.demand > 0

\* buffering the delivered prefix data[..n] instead of the remainder
slice_from_keeps_prefix(data, n) == SubSeq(data, 1, n)

\* buffering the whole slice whatever the sink took
slice_from_start(data, n) == data

\* `data[n..]`
slice_from(data, n) == SubSeq(data, n + 1, Len(data))

\* a short write that buffers the remainder but keeps the demand
partial_arm_keeps_demand(self, data, n) ==
    IF n > Len(data)
    THEN [self |-> self, ret |-> Panicked]
    ELSE [self |-> [self EXCEPT !.buffered = Some(SubSeq(data, n + 1, Len(data)))],
          ret |-> Ok]

\* a short write that spends the demand but buffers nothing
partial_arm_drops_remainder(self, data, n) ==
    IF n > Len(data)
    THEN [self |-> self, ret |-> Panicked]
    ELSE [self |-> [self EXCEPT !.demand = @ - 1], ret |-> Ok]

\* the Ok(n) arm with n != data.len(); data[n..] panics when n > data.len(),
\* before buffered or demand is assigned
partial_arm(self, data, n) ==
    IF n > Len(data)
    THEN [self |-> self, ret |-> Panicked]
    ELSE [self |-> [self EXCEPT !.buffered = Some(slice_from(data, n)),
                                !.demand = @ - 1],
          ret |-> Ok]

\* full acceptance that also spends the demand (tests::demand_decreases_on_write)
full_arm_spends_demand(self) ==
    [self |-> [emit(self, Request(1)) EXCEPT !.demand = @ - 1], ret |-> Ok]

\* full acceptance that grants itself the demand it announces
full_arm_grants_demand(self) ==
    [self |-> [emit(self, Request(1)) EXCEPT !.demand = @ + 1], ret |-> Ok]

\* full acceptance announcing the end of the stream instead of new demand
full_arm_emits_finish(self) == [self |-> emit(self, Finish), ret |-> Ok]

\* full acceptance that announces nothing
full_arm_silent(self) == [self |-> self, ret |-> Ok]

\* the Ok(n) arm with n == data.len()
full_arm(self) == [self |-> emit(self, Request(1)), ret |-> Ok]

\* a sink failure that spends the demand but drops the data
err_arm_drops_data(self, data) ==
    [self |-> [self EXCEPT !.demand = @ - 1], ret |-> Ok]

\* a sink failure surfaced to the caller as an error
err_arm_surfaces(self, data) ==
    [self |-> [self EXCEPT !.buffered = Some(data), !.demand = @ - 1],
     ret |-> Err(WriteWithoutRequest)]

\* a sink failure that buffers the data but keeps the demand
err_arm_keeps_demand(self, data) ==
    [self |-> [self EXCEPT !.buffered = Some(data)], ret |-> Ok]

\* a sink failure that still announces a new Request(1)
err_arm_announces(self, data) ==
    [self |-> [emit(self, Request(1)) EXCEPT !.buffered = Some(data),
                                             !.demand = @ - 1],
     ret |-> Ok]

\* the Err(_) arm
err_arm(self, data) ==
    [self |-> [self EXCEPT !.buffered = Some(data), !.demand = @ - 1],
     ret |-> Ok]

\* fn write(&mut self, data) -> Result<(), ConsumerError>; res is what
\* self.writer.write(data) answers if it is called
write(self, data, res) ==
    IF has_demand(self)
    THEN IF res[1] = "Ok"
         THEN IF res[2] # Len(data)
              THEN partial_arm(self, data, res[2])
              ELSE full_arm(self)
         ELSE err_arm(self, data)
    ELSE [self |-> self, ret |-> Err(WriteWithoutRequest)]

\* a write without demand retrying the buffered remainder on the sink
writer_calls_retries_buffered(self, data) ==
    IF has_demand(self) THEN <<data>>
    ELSE IF self.buffered # None THEN <<self.buffered[1]>> ELSE <<>>

\* the slices a call of write hands to self.writer.write, in call order:
\* the single `self.writer.write(data)` under the demand check
writer_calls(self, data) == IF has_demand(self) THEN <<data>> ELSE <<>>

\* ---------------------------------------------------------------- helpers
\* how a write call met the sink
Outcome(invoked, data, res) ==
    IF ~invoked THEN "not_called"
    ELSE IF res = SinkErr THEN "failure"
    ELSE IF res[2] = Len(data) THEN "full"
    ELSE IF res[2] < Len(data) THEN "partial"
    ELSE "overrun"

\* the bytes of data the sink did not take, for a failed or short write
Undelivered(data, res) ==
    IF res = SinkErr THEN data
    ELSE [i \in 1..(Len(data) - res[2]) |-> data[res[2] + i]]

\* the driver of the free model: any call at any time
NoDriver == [mode |-> "any"]

\* the events appended to the queue q by an operation that leaves it as q2
Appended(q, q2) == SubSeq(q2, Len(q) + 1, Len(q2))

RECURSIVE RequestSum(_)
\* the sum of the counts of the Request events of a sequence
RequestSum(s) ==
    IF s = <<>> THEN 0
    ELSE (IF Head(s).tag = "Request" THEN Head(s).count ELSE 0)
         + RequestSum(Tail(s))

\* the record kept of the latest operation
Last(op, arg, invoked, sink, ret) ==
    [op |-> op, arg |-> arg, invoked |-> invoked, sink |-> sink, ret |-> ret,
     pre |-> Self, first |-> fresh]

\* the slices the latest operation handed to the sink
Sent == IF last.op = "write" THEN writer_calls(last.pre, last.arg) ELSE <<>>

\* ---------------------------------------------------------------- actions
\* the consumer right after new, before any call
Constructed ==
    /\ demand = new.demand
    /\ event_queue = new.event_queue
    /\ buffered = new.buffered
    /\ panicked = FALSE
    /\ enqueued = new.event_queue
    /\ returned = <<>>
    /\ announced = RequestSum(new.event_queue)
    /\ okWrites = 0
    /\ fresh = TRUE
    /\ last = [op |-> "new", arg |-> <<>>, invoked |-> FALSE, sink |-> NotCalled,
               ret |-> <<>>, pre |-> new, first |-> TRUE]
    /\ own = new.event_queue
    /\ emitted = <<>>
    /\ firstWrite = "none"
    /\ shortWrites = 0
    /\ remainder = None

Init ==
    /\ Constructed
    /\ driver = NoDriver

\* a call consumer.write(data); the sink, if the call reaches it, answers res
WriteCall(data, res) ==
    LET out == write(Self, data, res)
        pushed == Appended(event_queue, out.self.event_queue)
        invoked == has_demand(Self)
        outcome == Outcome(invoked, data, res)
        short == outcome \in {"partial", "failure"}
    IN /\ ~panicked
       /\ res \in (IF invoked THEN SinkResults ELSE {NotCalled})
       /\ demand' = out.self.demand
       /\ event_queue' = out.self.event_queue
       /\ buffered' = out.self.buffered
       /\ panicked' = (out.ret = Panicked)
       /\ enqueued' = enqueued \o pushed
       /\ announced' = announced + RequestSum(pushed)
       /\ okWrites' = okWrites + (IF out.ret = Ok THEN 1 ELSE 0)
       /\ fresh' = FALSE
       /\ last' = Last("write", data, invoked, res, out.ret)
       /\ own' = own \o pushed
       /\ firstWrite' = IF firstWrite # "none" THEN firstWrite
                        ELSE IF short THEN "short" ELSE outcome
       /\ shortWrites' = shortWrites + (IF short THEN 1 ELSE 0)
       /\ remainder' = IF short THEN Some(Undelivered(data, res)) ELSE remainder
       /\ UNCHANGED <<returned, emitted>>

\* a call consumer.emit(event) made by the driver
EmitCall(event) ==
    LET out == emit(Self, event)
    IN /\ ~panicked
       /\ demand' = out.demand
       /\ event_queue' = out.event_queue
       /\ buffered' = out.buffered
       /\ enqueued' = Append(enqueued, event)
       /\ emitted' = Append(emitted, event)
       /\ fresh' = FALSE
       /\ last' = Last("emit", event, FALSE, NotCalled, <<>>)
       /\ UNCHANGED <<panicked, returned, announced, okWrites,
                      own, firstWrite, shortWrites, remainder>>

\* a call consumer.next_event()
NextEventCall ==
    LET out == next_event(Self)
    IN /\ ~panicked
       /\ demand' = out.self.demand
       /\ event_queue' = out.self.event_queue
       /\ buffered' = out.self.buffered
       /\ returned' = returned \o out.ret
       /\ fresh' = FALSE
       /\ last' = Last("next_event", <<>>, FALSE, NotCalled, out.ret)
       /\ UNCHANGED <<panicked, enqueued, announced, okWrites,
                      own, emitted, firstWrite, shortWrites, remainder>>

\* a call consumer.update()
UpdateCall ==
    LET out == update(Self)
    IN /\ ~panicked
       /\ demand' = out.demand
       /\ event_queue' = out.event_queue
       /\ buffered' = out.buffered
       /\ fresh' = FALSE
       /\ last' = Last("update", <<>>, FALSE, NotCalled, <<>>)
       /\ UNCHANGED <<panicked, enqueued, returned, announced, okWrites,
                      own, emitted, firstWrite, shortWrites, remainder>>

\* the driver calls consumer.write(data)
Write(data, res) ==
    /\ WriteCall(data, res)
    /\ Len(enqueued') <= MaxEvents
    /\ UNCHANGED driver

\* the driver calls consumer.emit(event)
Emit(event) ==
    /\ Len(enqueued) < MaxEvents
    /\ EmitCall(event)
    /\ UNCHANGED driver

\* the driver calls consumer.next_event()
NextEvent ==
    /\ NextEventCall
    /\ UNCHANGED driver

\* the driver calls consumer.update()
Update ==
    /\ UpdateCall
    /\ UNCHANGED driver

Next ==
    \/ \E data \in DataSet, res \in SinkResults \cup {NotCalled} : Write(data, res)
    \/ \E event \in EventSet : Emit(event)
    \/ NextEvent
    \/ Update

Spec == Init /\ [][Next]_vars

\* ------------------------------------------- the driver loop of tests::it_works
\* a sink that takes every slice whole (File, Cursor<Vec<u8>>)
AcceptAll(data) == SinkOk(Len(data))

LoopDriver(n) ==
    [mode |-> "loop", pc |-> "while", num_lines |-> n, num_written |-> 0]

LoopInit ==
    /\ Constructed
    /\ driver \in {LoopDriver(n) : n \in 1..MaxLines}

\* `while num_written < num_lines { match consumer.next_event() {...} }`:
\* a Request leads to the write, another event to the panic, None to the break
LoopPoll ==
    LET ret == next_event(Self).ret
    IN /\ driver.pc = "while"
       /\ driver.num_written < driver.num_lines
       /\ NextEventCall
       /\ driver' = [driver EXCEPT !.pc =
                        IF ret = None THEN "break"
                        ELSE IF ret[1].tag = "Request" THEN "write"
                        ELSE "unhandled_event"]

\* `assert_eq!(consumer.write(..), Ok(())); num_written += 1;`
LoopWrite(data, res) ==
    /\ driver.pc = "write"
    /\ res \in {AcceptAll(data), NotCalled}
    /\ WriteCall(data, res)
    /\ driver' = IF last'.ret = Ok
                 THEN [driver EXCEPT !.pc = "while", !.num_written = @ + 1]
                 ELSE [driver EXCEPT !.pc = "assert_failed"]

\* the loop condition fails: the test returns
LoopExit ==
    /\ driver.pc = "while"
    /\ driver.num_written >= driver.num_lines
    /\ driver' = [driver EXCEPT !.pc = "done"]
    /\ UNCHANGED <<demand, event_queue, buffered, panicked,
                   enqueued, returned, announced, okWrites, fresh, last,
                   own, emitted, firstWrite, shortWrites, remainder>>

LoopNext ==
    \/ LoopPoll
    \/ \E data \in DataSet, res \in SinkResults \cup {NotCalled} : LoopWrite(data, res)
    \/ LoopExit

\* the test is sequential code: it takes its next step as long as it has one
LoopSpec == LoopInit /\ [][LoopNext]_vars /\ WF_vars(LoopNext)

\* ------------------------------------- a driver that writes once per Request
GrantDriver == [mode |-> "grants", granted |-> 0]

GrantInit ==
    /\ Constructed
    /\ driver = GrantDriver

\* the driver takes the next event; a Request is a grant for one write
GrantPoll ==
    LET ret == next_event(Self).ret
    IN /\ NextEventCall
       /\ driver' = [driver EXCEPT !.granted =
                        IF ret # None /\ ret[1].tag = "Request" THEN @ + 1 ELSE @]

\* the driver uses one grant for one write, whatever the sink does with it
GrantWrite(data, res) ==
    /\ driver.granted > 0
    /\ WriteCall(data, res)
    /\ Len(enqueued') <= MaxEvents
    /\ driver' = [driver EXCEPT !.granted = @ - 1]

\* the driver calls update
GrantUpdate ==
    /\ UpdateCall
    /\ UNCHANGED driver

GrantNext ==
    \/ GrantPoll
    \/ \E data \in DataSet, res \in SinkResults \cup {NotCalled} : GrantWrite(data, res)
    \/ GrantUpdate

GrantSpec == GrantInit /\ [][GrantNext]_vars

\* the Request events of a sequence
RECURSIVE Requests(_)
Requests(q) ==
    IF q = <<>> THEN 0
    ELSE (IF Head(q).tag = "Request" THEN 1 ELSE 0) + Requests(Tail(q))

\* ---------------------------------------------------------------- typing
TypeOK ==
    /\ demand \in Nat
    /\ event_queue \in Seq(EventSet)
    /\ buffered = None \/ (Len(buffered) = 1 /\ buffered[1] \in DataSet)
    /\ panicked \in BOOLEAN
    /\ okWrites \in Nat
    /\ announced \in Nat

\* ---------------------------------------------------------------- claims
\* the latest operation was a write
WasWrite == last.op = "write"
\* the latest operation was a write that reached the sink, which answered res
SinkAnswered(res) == WasWrite /\ last.invoked /\ last.sink = res
\* the latest operation was a write the sink accepted n bytes of
SinkAccepted(n) == SinkAnswered(SinkOk(n))

\* C1: a write called with demand == 0 returns WriteWithoutRequest, does not
\* call the sink and leaves demand, buffered and the event queue as they were.
C1_WriteWithoutDemand ==
    (WasWrite /\ last.pre.demand = 0) =>
        /\ last.ret = Err(WriteWithoutRequest)
        /\ ~last.invoked
        /\ demand = last.pre.demand
        /\ buffered = last.pre.buffered
        /\ event_queue = last.pre.event_queue

C1_Witness ==
    /\ WasWrite
    /\ last.pre.demand = 0
    /\ last.arg # <<>>
    /\ event_queue # <<>>

\* C2: right after new, demand is 1, buffered is none and the queue is
\* [Request(1)]; a next_event called first returns Request(1) with demand
\* still 1, and the first event ever handed out is Request(1).
C2_AfterNew ==
    /\ fresh => /\ demand = 1
                /\ buffered = None
                /\ event_queue = <<Request(1)>>
    /\ (last.op = "next_event" /\ last.first) =>
           /\ last.ret = Some(Request(1))
           /\ demand = 1
    /\ returned # <<>> => returned[1] = Request(1)

C2_Witness ==
    /\ last.op = "next_event"
    /\ last.first
    /\ returned = <<Request(1)>>

C4_PartialAcceptance ==
    \A n \in 0..MaxLen :
        (WasWrite /\ last.pre.demand > 0 /\ SinkAccepted(n) /\ n < Len(last.arg)) =>
            /\ buffered # None
            /\ Len(buffered[1]) = Len(last.arg) - n
            /\ \A i \in 1..(Len(last.arg) - n) : buffered[1][i] = last.arg[n + i]
            /\ demand = last.pre.demand - 1
            /\ event_queue = last.pre.event_queue

C4_Witness ==
    /\ SinkAccepted(1)
    /\ last.arg = <<65, 66>>
    /\ buffered = Some(<<66>>)
    /\ demand = 0

\* C5: a write whose sink call fails still returns success, leaves the whole
\* data in buffered, lowers demand by one and leaves the queue alone.
C5_SinkFailure ==
    (WasWrite /\ last.pre.demand > 0 /\ SinkAnswered(SinkErr)) =>
        /\ last.ret = Ok
        /\ buffered = Some(last.arg)
        /\ demand = last.pre.demand - 1
        /\ event_queue = last.pre.event_queue

C5_Witness ==
    /\ SinkAnswered(SinkErr)
    /\ last.arg # <<>>
    /\ last.ret = Ok

\* the sink was not called, or failed, or accepted no more than it was given
SpecifiedOutcome ==
    \/ ~last.invoked
    \/ last.sink = SinkErr
    \/ (last.sink[1] = "Ok" /\ last.sink[2] <= Len(last.arg))

\* C6: whatever the sink does (full, partial, failure), write returns success
\* exactly when demand > 0 at the call and WriteWithoutRequest exactly when
\* demand == 0; it returns nothing else.
C6_SuccessIffDemand ==
    (WasWrite /\ SpecifiedOutcome) =>
        /\ last.ret \in {Ok, Err(WriteWithoutRequest)}
        /\ last.ret = Ok <=> last.pre.demand > 0
        /\ last.ret = Err(WriteWithoutRequest) <=> last.pre.demand = 0

C6_Witness ==
    /\ WasWrite
    /\ last.ret = Err(WriteWithoutRequest)
    /\ okWrites >= 2
    /\ buffered # None

\* C7: the events handed out by next_event, followed by the events still
\* queued, are exactly the events enqueued, in enqueue order: what has been
\* handed out is a prefix of what was enqueued.
C7_Fifo ==
    /\ Len(returned) <= Len(enqueued)
    /\ \A i \in 1..Len(returned) : returned[i] = enqueued[i]
    /\ event_queue = SubSeq(enqueued, Len(returned) + 1, Len(enqueued))

C7_Witness ==
    /\ Len(returned) = 2
    /\ returned[1] # returned[2]
    /\ event_queue # <<>>
    /\ okWrites >= 1

\* C8: the writes that returned success never outnumber the demand the
\* consumer itself announced (the counts of the Requests enqueued by new and
\* by write).
C8_WritesWithinAnnounced == okWrites <= announced

C8_Witness ==
    /\ okWrites = announced
    /\ okWrites >= 2
    /\ RequestSum(enqueued) > announced

\* C9: no step raises demand and none lowers it by more than one; a step
\* taken with demand == 0 leaves it 0, and a write taken then returns
\* WriteWithoutRequest.
C9_DemandNeverRestored ==
    [][/\ demand' <= demand
       /\ demand' >= demand - 1
       /\ demand = 0 => /\ demand' = 0
                        /\ last'.op = "write" => last'.ret = Err(WriteWithoutRequest)]_vars

C9_Witness ==
    /\ demand = 0
    /\ last.pre.demand = 0
    /\ last.op = "emit"
    /\ last.arg = Request(1)

\* C10: demand is never negative, and it is lowered only from a positive
\* value: the decrement never underflows the unsigned counter.
C10_DemandNonNegative ==
    /\ demand >= 0
    /\ demand # last.pre.demand => last.pre.demand > 0

C10_Witness ==
    /\ demand = 0
    /\ last.pre.demand = 1
    /\ last.pre.event_queue = <<>>

\* C11: when the first write on a new consumer meets a sink that fails or
\* takes fewer bytes than offered, that write returns success, and every write
\* after it, the second one first, returns WriteWithoutRequest without
\* reaching the sink, whatever its data.
C11_SecondWriteRefused ==
    [][/\ (firstWrite = "none" /\ firstWrite' = "short") =>
              last'.ret = Ok
       /\ (firstWrite = "short" /\ last'.op = "write") =>
              /\ last'.ret = Err(WriteWithoutRequest)
              /\ last'.sink = NotCalled
              /\ firstWrite' = firstWrite]_vars

C11_Witness ==
    /\ firstWrite = "short"
    /\ buffered = Some(<<66>>)
    /\ WasWrite
    /\ last.ret = Err(WriteWithoutRequest)
    /\ last.arg # <<>>
    /\ last.arg # buffered[1]

\* C13: every event the consumer enqueues itself (in new and in write) is
\* Request(1); a Termination or Finish in the queue was passed to emit by
\* the driver.
C13_OwnEventsAreRequests ==
    /\ \A i \in 1..Len(own) : own[i] = Request(1)
    /\ Len(enqueued) = Len(own) + Len(emitted)
    /\ \A i \in 1..Len(event_queue) :
           event_queue[i].tag \in {"Termination", "Finish"} =>
               \E j \in 1..Len(emitted) : emitted[j] = event_queue[i]

C13_Witness ==
    /\ Len(own) >= 2
    /\ \E i \in 1..Len(event_queue) : event_queue[i] = Finish
    /\ event_queue[Len(event_queue)] = Request(1)
    /\ WasWrite

\* C14: next_event on an empty queue returns nothing and changes nothing; on
\* a non-empty queue it returns the head and leaves the tail in order; it
\* never touches demand or buffered and never calls the sink.
C14_NextEventFrame ==
    last.op = "next_event" =>
        /\ last.pre.event_queue = <<>> =>
               /\ last.ret = None
               /\ event_queue = <<>>
        /\ last.pre.event_queue # <<>> =>
               /\ last.ret = Some(last.pre.event_queue[1])
               /\ Len(event_queue) = Len(last.pre.event_queue) - 1
               /\ \A i \in 1..Len(event_queue) :
                      event_queue[i] = last.pre.event_queue[i + 1]
        /\ demand = last.pre.demand
        /\ buffered = last.pre.buffered
        /\ Sent = <<>>

C14_Witness ==
    /\ last.op = "next_event"
    /\ Len(last.pre.event_queue) >= 2
    /\ last.pre.event_queue[1] # last.pre.event_queue[2]
    /\ buffered # None

\* C15: update leaves demand, buffered and the event queue as they were and
\* does not call the sink, in whatever state it is called.
C15_UpdateIsNoOp ==
    last.op = "update" =>
        /\ demand = last.pre.demand
        /\ buffered = last.pre.buffered
        /\ event_queue = last.pre.event_queue
        /\ Sent = <<>>

C15_Witness ==
    /\ last.op = "update"
    /\ buffered # None
    /\ event_queue # <<>>
    /\ returned # <<>>

\* C16: buffered is none as long as no write was short or failed, and
\* otherwise exactly what the sink left undelivered of the latest such write,
\* never more.
C16_SingleRemainder ==
    /\ buffered = remainder
    /\ shortWrites = 0 => buffered = None

C16_Witness ==
    /\ buffered = Some(<<66>>)
    /\ okWrites >= 2
    /\ last.op = "next_event"

\* C17: a remainder once buffered is never cleared and never handed to the
\* sink: the sink is called at most once per write, only with demand > 0 and
\* only with that write's data, and by no other operation.
C17_NoRedelivery ==
    /\ Len(Sent) <= 1
    /\ Sent # <<>> => /\ WasWrite
                      /\ last.pre.demand > 0
                      /\ Sent = <<last.arg>>
    /\ last.pre.buffered # None => /\ buffered = last.pre.buffered
                                   /\ Sent = <<>>

C17_Witness ==
    /\ WasWrite
    /\ last.pre.buffered = Some(<<65>>)
    /\ last.arg = <<66, 65>>
    /\ buffered = Some(<<65>>)

\* C18: demand is 0 or 1, at most one write of a consumer's life is short or
\* failed, and that write finds buffered empty: a remainder never replaces
\* an earlier one.
C18_AtMostOneShortWrite ==
    /\ demand \in {0, 1}
    /\ shortWrites <= 1
    /\ (WasWrite /\ Outcome(last.invoked, last.arg, last.sink) \in {"partial", "failure"}) =>
           last.pre.buffered = None

C18_Witness ==
    /\ shortWrites = 1
    /\ firstWrite = "full"
    /\ buffered = Some(<<65, 66>>)
    /\ WasWrite
    /\ last.ret = Err(WriteWithoutRequest)

\* C19: buffered holds something exactly when demand is 0, and a consumer
\* with demand left has had no short or failed write.
C19_BufferedIffExhausted ==
    /\ buffered # None <=> demand = 0
    /\ demand > 0 => shortWrites = 0

C19_Witness ==
    /\ demand = 0
    /\ buffered = Some(<<>>)
    /\ last.op = "emit"

\* the driver loop of tests::it_works has gone wrong: empty queue, an event
\* it does not handle, or a write that did not succeed
LoopFailed == driver.pc \in {"break", "unhandled_event", "assert_failed"}

\* C12: with a sink that takes every slice whole, the driver loop never finds
\* the queue empty, only ever receives Request(1), has every write succeed,
\* and ends having performed exactly the number of writes it was asked for.
C12_LoopTerminates ==
    /\ [](/\ ~LoopFailed
          /\ \A i \in 1..Len(returned) : returned[i] = Request(1)
          /\ okWrites = driver.num_written
          /\ driver.num_written <= driver.num_lines
          /\ WasWrite => last.ret = Ok)
    /\ <>(driver.pc = "done" /\ driver.num_written = driver.num_lines)

C12_Witness ==
    /\ driver.pc = "done"
    /\ driver.num_lines >= 3
    /\ driver.num_written = driver.num_lines
    /\ Len(returned) = driver.num_lines

\* C20: for a driver that never emits and writes exactly once per Request it
\* has taken from the queue, the Requests still queued plus the Requests
\* taken and not yet written for equal demand as long as the consumer is
\* alive, and no write returns WriteWithoutRequest.
C20_GrantsMatchDemand ==
    /\ ~panicked => Requests(event_queue) + driver.granted = demand
    /\ WasWrite => last.ret # Err(WriteWithoutRequest)

C20_Witness ==
    /\ WasWrite
    /\ okWrites >= 2
    /\ demand = 0
    /\ driver.granted = 0
    /\ event_queue = <<>>
====
